---- MODULE Spec2Model ----
(***************************************************************************)
(* Model of riptide_cli/lifecycle.py: the progress-reporting pipeline of   *)
(* start_project / stop_project.                                           *)
(*                                                                         *)
(* Strings are sequences of one-character strings, so that len(), slicing, *)
(* ljust() and concatenation are computed as Python computes them.         *)
(* An absent value (None, or a terminal whose size cannot be read) is the  *)
(* empty sequence <<>>; a present value v is <<v>>.                        *)
(*                                                                         *)
(* One action is one stretch of code between two suspension points of the  *)
(* coroutine: the call up to the first await of the stream, one iteration  *)
(* of the async-for loop, the stream's end with everything after the loop, *)
(* and the stream raising.                                                 *)
(***************************************************************************)
EXTENDS Integers, Sequences, FiniteSets, TLC

\* ---------------------------------------------------------------- bounds
MaxEvents == 2
MaxStep == 2

\* ------------------------------------------------------- program constants
FallbackRight == 45
FallbackError == 45

\* -------------------------------------------------------- bounded inputs
db == <<"d", "b">>
web == <<"w", "e", "b">>
ServiceNames == {db, web}

ok == <<"o", "k">>
starting == <<"s", "t", "a", "r", "t", "i", "n", "g">>
Texts == {ok, starting}

\* terminal sizes: no terminal (os.get_terminal_size raises OSError), or columns
NoTerminal == <<>>
Terminals == {NoTerminal, <<5>>, <<10>>}

RECURSIVE SeqsUpTo(_, _)
SeqsUpTo(S, n) ==
    IF n = 0 THEN {<<>>}
    ELSE LET shorter == SeqsUpTo(S, n - 1)
         IN  shorter \cup {Append(q, x) : q \in {r \in shorter : Len(r) = n - 1}, x \in S}

\* the services argument: every list over the names, repeated names included,
\* up to as many entries as there are names
ServiceLists == SeqsUpTo(ServiceNames, Cardinality(ServiceNames))

\* ------------------------------------------------------------- payloads
NoStatus == [kind |-> "None"]
InProgress(text, current_step, steps) ==
    [kind |-> "InProgress", text |-> text, current_step |-> current_step, steps |-> steps]
Failure(message) == [kind |-> "Failure", message |-> message]

\* steps: None, or the number of steps of the operation
StepOptions == {<<>>, <<MaxStep>>}
Payloads ==
    {NoStatus}
    \cup {InProgress(t, c, s) : t \in Texts, c \in 0..MaxStep, s \in StepOptions}
    \cup {Failure(m) : m \in Texts}

\* ------------------------------------------------------ Python primitives
Spaces(k) == [i \in 1..k |-> " "]

\* str.ljust(width)
LJust(s, width) == IF Len(s) >= width THEN s ELSE s \o Spaces(width - Len(s))

\* s[:k], for k of either sign
SlicePrefix(s, k) ==
    LET stop == IF k >= 0 THEN (IF k < Len(s) THEN k ELSE Len(s))
                ELSE (IF Len(s) + k > 0 THEN Len(s) + k ELSE 0)
    IN  SubSeq(s, 1, stop)

Ellipsis == <<".", ".", ".">>

\* round(num / den) for num >= 0, den > 0: to nearest, ties to even
Round(num, den) ==
    LET q == num \div den
        r == num % den
    IN  IF 2 * r < den THEN q
        ELSE IF 2 * r > den THEN q + 1
        ELSE IF q % 2 = 0 THEN q ELSE q + 1

text_width_right(t) == IF t = NoTerminal THEN FallbackRight ELSE Round(t[1] * 4, 10)

text_width_error(t) == IF t = NoTerminal THEN FallbackError ELSE Round(t[1] * 7, 10)

\* (text[:tw-3] + '...') if len(text) > tw-3 else text.ljust(tw)
Bound(text, tw) ==
    IF Len(text) > tw - 3 THEN SlicePrefix(text, tw - 3) \o Ellipsis ELSE LJust(text, tw)

\* -------------------------------------------------------------- tqdm bars
DefaultFormat == [custom |-> FALSE, tail |-> <<>>]
MessageFormat(msg) == [custom |-> TRUE, tail |-> msg]

\* the line tqdm draws for a bar: bar_format filled in
Render(bar) ==
    IF bar.bar_format.custom
    THEN bar.desc \o bar.bar_format.tail
    ELSE bar.desc \o <<ToString(bar.n), "/", ToString(bar.total), "|", "{bar}", "|", " ">>
                  \o bar.postfix

\* a refresh that draws nothing
RefreshNothing(bar) == bar

Refresh(bar) == [bar EXCEPT !.line = Render(bar)]

\* len(max(services, key=len)) for a non-empty sequence
LongestLen(services) ==
    CHOOSE l \in {Len(services[i]) : i \in DOMAIN services} :
        \A i \in DOMAIN services : Len(services[i]) <= l

\* keys of the OrderedDict in insertion order: the first occurrence of each name
RECURSIVE KeyOrder(_)
KeyOrder(services) ==
    IF services = <<>> THEN <<>>
    ELSE LET front == KeyOrder(SubSeq(services, 1, Len(services) - 1))
             last == services[Len(services)]
         IN  IF \E i \in DOMAIN front : front[i] = last THEN front ELSE Append(front, last)

\* the value left under a key: the tqdm made by the last iteration that assigns it
LastIndex(services, name) ==
    CHOOSE i \in DOMAIN services :
        /\ services[i] = name
        /\ \A j \in DOMAIN services : services[j] = name => j <= i

\* positions counted from one
NewBarOneBased(name, i, longest, t) ==
    Refresh([total |-> 1,
             position |-> i + 1,
             n |-> 0,
             postfix |-> LJust(Ellipsis, text_width_right(t)),
             desc |-> LJust(name, longest) \o <<":", " ">>,
             bar_format |-> DefaultFormat,
             closed |-> FALSE,
             line |-> <<>>])

NewBar(name, i, longest, t) ==
    Refresh([total |-> 1,
             position |-> i,
             n |-> 0,
             postfix |-> LJust(Ellipsis, text_width_right(t)),
             desc |-> LJust(name, longest) \o <<":", " ">>,
             bar_format |-> DefaultFormat,
             closed |-> FALSE,
             line |-> <<>>])

\* one key for every entry of the list, repeated names included
BuildKeysKeepsRepeats(services) == services

\* _build_progress_bars, for a non-empty sequence: keys (in order) and bars
BuildKeys(services) == KeyOrder(services)

BuildBars(services, t) ==
    [name \in {services[i] : i \in DOMAIN services} |->
        NewBar(name, LastIndex(services, name) - 1, LongestLen(services), t)]

\* --------------------------------------------------------- event handling
Registered(bars, service_name) == service_name \in DOMAIN bars

\* the delta taken for the new value of the counter
UpdateAbsolute(bar, delta) == [bar EXCEPT !.n = delta]

\* tqdm.update(delta): the counter moves by delta, of either sign
Update(bar, delta) == [bar EXCEPT !.n = bar.n + delta]

\* a failure line bounded to the right budget
HandleErrorRightBudget(service_name, status, bars, errs, t) ==
    LET tw == text_width_right(t)
        appended == Append(errs, [service |-> service_name, error |-> status])
    IN  IF ~Registered(bars, service_name)
        THEN [bars |-> bars, errors |-> appended, exc |-> <<"KeyError">>]
        ELSE LET msg == Bound(status.message, tw)
                 bar == [bars[service_name] EXCEPT !.bar_format = MessageFormat(msg)]
             IN  [bars |-> [bars EXCEPT ![service_name] = Refresh(bar)],
                  errors |-> appended,
                  exc |-> <<>>]

\* a failure that is raised after it is recorded
HandleErrorRaises(service_name, status, bars, errs, t) ==
    [bars |-> bars,
     errors |-> Append(errs, [service |-> service_name, error |-> status]),
     exc |-> <<"ResultError">>]

\* a failure recorded at the front of the list
HandleErrorPrepends(service_name, status, bars, errs, t) ==
    LET tw == text_width_error(t)
        recorded == <<[service |-> service_name, error |-> status]>> \o errs
    IN  IF ~Registered(bars, service_name)
        THEN [bars |-> bars, errors |-> recorded, exc |-> <<"KeyError">>]
        ELSE LET msg == Bound(status.message, tw)
                 bar == [bars[service_name] EXCEPT !.bar_format = MessageFormat(msg)]
             IN  [bars |-> [bars EXCEPT ![service_name] = Refresh(bar)],
                  errors |-> recorded,
                  exc |-> <<>>]

\* the branch `if finished: if status:` of _handle_progress_bar (lines 55-59):
\* the record is appended before the bar is looked up
HandleError(service_name, status, bars, errs, t) ==
    LET tw == text_width_error(t)
        appended == Append(errs, [service |-> service_name, error |-> status])
    IN  IF ~Registered(bars, service_name)
        THEN [bars |-> bars, errors |-> appended, exc |-> <<"KeyError">>]
        ELSE LET msg == Bound(status.message, tw)
                 bar == [bars[service_name] EXCEPT !.bar_format = MessageFormat(msg)]
             IN  [bars |-> [bars EXCEPT ![service_name] = Refresh(bar)],
                  errors |-> appended,
                  exc |-> <<>>]

\* a step that moves the counter of every bar
HandleStepAllBars(service_name, status, bars, errs, t) ==
    LET tw == text_width_right(t)
    IN  IF ~Registered(bars, service_name)
        THEN [bars |-> bars, errors |-> errs, exc |-> <<"KeyError">>]
        ELSE LET text_for_status == Bound(status.text, tw)
                 b0 == bars[service_name]
                 b1 == [b0 EXCEPT !.postfix = text_for_status]
                 b2 == IF status.steps # <<>> /\ b1.total # status.steps[1]
                       THEN [b1 EXCEPT !.total = status.steps[1]]
                       ELSE b1
                 b3 == Update(b2, status.current_step - b2.n)
             IN  [bars |-> [name \in DOMAIN bars |->
                              IF name = service_name
                              THEN Refresh(b3)
                              ELSE Refresh(Update(bars[name],
                                                  status.current_step - bars[name].n))],
                  errors |-> errs,
                  exc |-> <<>>]

\* a step for a name that has no bar, skipped
HandleStepIgnoresUnknown(service_name, status, bars, errs, t) ==
    LET tw == text_width_right(t)
    IN  IF ~Registered(bars, service_name)
        THEN [bars |-> bars, errors |-> errs, exc |-> <<>>]
        ELSE LET text_for_status == Bound(status.text, tw)
                 b0 == bars[service_name]
                 b1 == [b0 EXCEPT !.postfix = text_for_status]
                 b2 == IF status.steps # <<>> /\ b1.total # status.steps[1]
                       THEN [b1 EXCEPT !.total = status.steps[1]]
                       ELSE b1
                 b3 == Update(b2, status.current_step - b2.n)
             IN  [bars |-> [bars EXCEPT ![service_name] = Refresh(b3)],
                  errors |-> errs,
                  exc |-> <<>>]

\* a step that never takes over the payload's steps
HandleStepKeepsTotal(service_name, status, bars, errs, t) ==
    LET tw == text_width_right(t)
    IN  IF ~Registered(bars, service_name)
        THEN [bars |-> bars, errors |-> errs, exc |-> <<"KeyError">>]
        ELSE LET text_for_status == Bound(status.text, tw)
                 b0 == bars[service_name]
                 b1 == [b0 EXCEPT !.postfix = text_for_status]
                 b3 == Update(b1, status.current_step - b1.n)
             IN  [bars |-> [bars EXCEPT ![service_name] = Refresh(b3)],
                  errors |-> errs,
                  exc |-> <<>>]

\* the branch `else:` of `if finished:` (lines 64-71)
HandleStep(service_name, status, bars, errs, t) ==
    LET tw == text_width_right(t)
    IN  IF ~Registered(bars, service_name)
        THEN [bars |-> bars, errors |-> errs, exc |-> <<"KeyError">>]
        ELSE LET text_for_status == Bound(status.text, tw)
                 b0 == bars[service_name]
                 b1 == [b0 EXCEPT !.postfix = text_for_status]
                 b2 == IF status.steps # <<>> /\ b1.total # status.steps[1]
                       THEN [b1 EXCEPT !.total = status.steps[1]]
                       ELSE b1
                 b3 == Update(b2, status.current_step - b2.n)
             IN  [bars |-> [bars EXCEPT ![service_name] = Refresh(b3)],
                  errors |-> errs,
                  exc |-> <<>>]

\* a finished event without payload that fills the bar and redraws it
HandleProgressBarCompletes(service_name, status, finished, bars, errs, t) ==
    IF finished
    THEN IF status # NoStatus
         THEN HandleError(service_name, status, bars, errs, t)
         ELSE IF Registered(bars, service_name)
         THEN [bars |-> [bars EXCEPT ![service_name] =
                            Refresh([bars[service_name] EXCEPT !.n = bars[service_name].total])],
               errors |-> errs, exc |-> <<>>]
         ELSE [bars |-> bars, errors |-> errs, exc |-> <<>>]
    ELSE HandleStep(service_name, status, bars, errs, t)

\* _handle_progress_bar(service_name, status, finished, progress_bars, errors)
HandleProgressBar(service_name, status, finished, bars, errs, t) ==
    IF finished
    THEN IF status # NoStatus
         THEN HandleError(service_name, status, bars, errs, t)
         ELSE [bars |-> bars, errors |-> errs, exc |-> <<>>]
    ELSE HandleStep(service_name, status, bars, errs, t)

\* ------------------------------------------------------------------ output
Echo(text) == [op |-> "echo", arg |-> text]
Close(name) == [op |-> "close", arg |-> name]
\* TAB of riptide_cli.helpers, kept as one token; style() is left out of the text
TAB == <<"TAB">>

Reverse(q) == [i \in 1..Len(q) |-> q[Len(q) + 1 - i]]

RECURSIVE Flatten(_)
Flatten(qq) == IF qq = <<>> THEN <<>> ELSE Head(qq) \o Flatten(Tail(qq))

\* the bars closed in insertion order
CloseOutputForward(ks) == Flatten([i \in 1..Len(ks) |-> <<Close(ks[i]), Echo(<<>>)>>])

\* for bar in reversed(progress_bars.values()): bar.close(); echo()
CloseOutput(ks) == Flatten([i \in 1..Len(ks) |-> <<Close(Reverse(ks)[i]), Echo(<<>>)>>])

CloseBars(bars) == [name \in DOMAIN bars |-> [bars[name] EXCEPT !.closed = TRUE]]

\* str(error["error"]): the text of the payload recorded with the service
ErrorText(status) == status.message

\* the records printed without the blank line between them
DisplayErrorsNoSeparator(errs) ==
    IF Len(errs) > 0
    THEN <<Echo(<<"There were errors while starting some of the services: ">>)>>
         \o Flatten([i \in 1..Len(errs) |->
                <<Echo(TAB \o errs[i].service \o <<":">>),
                  Echo(TAB \o ErrorText(errs[i].error))>>])
    ELSE <<>>

\* _display_errors(errors)
DisplayErrors(errs) ==
    IF Len(errs) > 0
    THEN <<Echo(<<"There were errors while starting some of the services: ">>)>>
         \o Flatten([i \in 1..Len(errs) |->
                <<Echo(TAB \o errs[i].service \o <<":">>),
                  Echo(TAB \o ErrorText(errs[i].error)),
                  Echo(<<>>)>>])
    ELSE <<>>

\* ------------------------------------------------------------ status report
\* project["app"]["services"].keys()
ProjectServices == <<db, web>>

Stopped == [running |-> FALSE, web |-> <<>>, additional_ports |-> <<>>]
Running == [running |-> TRUE, web |-> <<"http://web">>,
            additional_ports |-> <<[title |-> "p", container |-> 80, host |-> 8080]>>]

\* what status_for(project, engine, system_config) can return: one entry per service
StatusResults ==
    {[i \in 1..Len(ProjectServices) |->
        [name |-> ProjectServices[i], status |-> IF i = 1 THEN Running ELSE Stopped]]}

PortLines(ports) ==
    [i \in 1..Len(ports) |->
        Echo(TAB \o TAB \o TAB
             \o <<"Port ", ports[i].title, " (", ToString(ports[i].container),
                  ") reachable on localhost:", ToString(ports[i].host)>>)]

\* the body of the loop of status_project for one service (lines 172-188)
ServiceLines(name, status, limit_services) ==
    IF limit_services # <<>> /\ limit_services[1] # <<>>
       /\ ~\E i \in DOMAIN limit_services[1] : limit_services[1][i] = name
    THEN <<>>
    ELSE <<Echo(TAB \o name \o <<":">>)>>
         \o (IF ~status.running
             THEN <<Echo(TAB \o TAB \o <<"Not running.">>)>>
             ELSE <<Echo(TAB \o TAB \o <<"Running.">>)>>
                  \o (IF status.web # <<>>
                      THEN <<Echo(TAB \o TAB \o <<"Access via ">> \o status.web)>>
                      ELSE <<>>)
                  \o (IF Len(status.additional_ports) > 0
                      THEN <<Echo(TAB \o TAB \o <<"Additional Ports:">>)>>
                           \o PortLines(status.additional_ports)
                      ELSE <<>>))
         \o <<Echo(<<>>)>>

\* a project that is not set up reported, and the services listed all the same
StatusProjectListsAnyway(config, set_up, result, limit_services) ==
    LET head == <<Echo(<<"Status:">>)>>
        nocfg == IF config = "none"
                 THEN <<Echo(TAB \o <<"No system configuration found.">>)>>
                 ELSE <<>>
        notset == IF ~set_up
                  THEN <<Echo(TAB \o <<"Project is not yet set up. Run the setup command.">>)>>
                  ELSE <<>>
    IN  IF config # "project"
        THEN [out |-> head \o nocfg \o <<Echo(TAB \o <<"No project found.">>)>>,
              queried |-> FALSE]
        ELSE [out |-> head \o notset \o Flatten([i \in 1..Len(result) |->
                          ServiceLines(result[i].name, result[i].status, limit_services)]),
              queried |-> TRUE]

\* status_project(ctx, limit_services): the lines echoed and whether status_for
\* is called. config is "none" (system_config is None), "noproject" (no "project"
\* key) or "project"; result is what status_for returns if it is called.
StatusProject(config, set_up, result, limit_services) ==
    LET head == <<Echo(<<"Status:">>)>>
        nocfg == IF config = "none"
                 THEN <<Echo(TAB \o <<"No system configuration found.">>)>>
                 ELSE <<>>
    IN  IF config # "project"
        THEN [out |-> head \o nocfg \o <<Echo(TAB \o <<"No project found.">>)>>,
              queried |-> FALSE]
        ELSE IF ~set_up
        THEN [out |-> head
                      \o <<Echo(TAB \o <<"Project is not yet set up. Run the setup command.">>)>>,
              queried |-> FALSE]
        ELSE [out |-> head \o Flatten([i \in 1..Len(result) |->
                          ServiceLines(result[i].name, result[i].status, limit_services)]),
              queried |-> TRUE]

\* ------------------------------------------------------------------- state
VARIABLES
    pc,             \* "idle", "consuming", "done" (returned) or "raised"
    op,             \* "start" or "stop": which operation was called
    services,       \* the services argument after the None default is applied
    show_status,    \* the show_status argument
    term,           \* the terminal: NoTerminal or <<columns>>
    keys,           \* ctx.progress_bars: its keys in insertion order
    progress_bars,  \* ctx.progress_bars: key -> tqdm bar
    errors,         \* the local list errors
    event,          \* the loop variables (service_name, status, finished): <<>> before
                    \* the first iteration, <<e>> after
    delivered,      \* number of tuples the stream has yielded so far
    out,            \* what was written with echo() and which bars were closed, in order
    calls,          \* the calls made to the engine, in order
    raised,         \* the exception that left the operation: <<>> or <<e>>
    system_config,  \* ctx.parent.system_config as the code found it: "unread", "none"
                    \* (None), "noproject" (no "project" key) or "project"
    set_up,         \* ctx.parent.project_is_set_up as the code found it: <<>> while
                    \* it was not read, <<b>> after
    runs            \* a start_project run and a stop_project run side by side, given
                    \* the same arguments, terminal, events and project state

vars == <<pc, op, services, show_status, term, keys, progress_bars, errors, event,
          delivered, out, calls, raised, system_config, set_up, runs>>

\* what the engine's stream yields: a step while a service is being worked on,
\* and a last tuple with an error or with None when it is finished
Events ==
    {[service_name |-> s, status |-> p, finished |-> p.kind # "InProgress"] :
        s \in ServiceNames, p \in Payloads}

\* a run of start_project or stop_project that has not been called yet
NotCalled ==
    [pc |-> "idle", op |-> "none", services |-> <<>>, show_status |-> FALSE,
     keys |-> <<>>, progress_bars |-> <<>>, errors |-> <<>>, delivered |-> 0,
     out |-> <<>>, calls |-> <<>>, raised |-> <<>>, set_up |-> <<>>]

Init ==
    /\ pc = "idle"
    /\ op = "none"
    /\ services = <<>>
    /\ show_status = FALSE
    /\ term \in Terminals
    /\ keys = <<>>
    /\ progress_bars = <<>>
    /\ errors = <<>>
    /\ event = <<>>
    /\ delivered = 0
    /\ out = <<>>
    /\ calls = <<>>
    /\ raised = <<>>
    /\ system_config = "unread"
    /\ set_up = <<>>
    /\ runs = [start |-> NotCalled, stop |-> NotCalled]

Header(o) == IF o = "start" THEN "Starting services..." ELSE "Stopping services..."
ErrorMessage(o) ==
    IF o = "start" THEN "Error starting the services" ELSE "Error stopping the services"
EngineCall(o) == IF o = "start" THEN "start_project" ELSE "stop_project"

\* start_project / stop_project up to the first await (lines 89-102, 122-135).
\* arg is the services argument: <<>> for None, <<list>> for a list.
Call(o, arg, show) ==
    /\ pc = "idle"
    /\ op' = o
    /\ show_status' = show
    /\ services' = IF arg = <<>> THEN ProjectServices ELSE arg[1]
    /\ system_config' = "project"
    /\ out' = <<Echo(<<Header(o)>>), Echo(<<>>)>>
    /\ IF services' = <<>>
       THEN \* max() of an empty sequence
            /\ pc' = "raised"
            /\ raised' = <<[type |-> "ValueError", message |-> "", cause |-> ""]>>
            /\ UNCHANGED <<keys, progress_bars, calls>>
       ELSE /\ pc' = "consuming"
            /\ keys' = BuildKeys(services')
            /\ progress_bars' = BuildBars(services', term)
            /\ calls' = Append(calls, EngineCall(o))
            /\ UNCHANGED raised
    /\ UNCHANGED <<term, errors, event, delivered, set_up, runs>>

start_project ==
    \E arg \in {<<>>} \cup {<<l>> : l \in ServiceLists}, show \in BOOLEAN :
        Call("start", arg, show)

stop_project ==
    \E arg \in {<<>>} \cup {<<l>> : l \in ServiceLists}, show \in BOOLEAN :
        Call("stop", arg, show)

\* the cause let through as it is
WrapNothing(o, cause) == <<[type |-> cause, message |-> "", cause |-> ""]>>

\* except Exception as err: raise RiptideCliError(message, ctx) from err
Wrap(o, cause) == <<[type |-> "RiptideCliError", message |-> ErrorMessage(o), cause |-> cause]>>

\* one iteration of the async for: the stream yields e and it is handled
NextEvent ==
    /\ pc = "consuming"
    /\ delivered < MaxEvents
    /\ \E e \in Events :
        LET r == HandleProgressBar(e.service_name, e.status, e.finished,
                                   progress_bars, errors, term)
        IN  /\ event' = <<e>>
            /\ delivered' = delivered + 1
            /\ progress_bars' = r.bars
            /\ errors' = r.errors
            /\ IF r.exc = <<>>
               THEN UNCHANGED <<pc, raised>>
               ELSE /\ pc' = "raised"
                    /\ raised' = Wrap(op, r.exc[1])
    /\ UNCHANGED <<op, services, show_status, term, keys, out, calls, system_config, set_up,
                   runs>>

\* the engine's stream raises instead of yielding
StreamRaise ==
    /\ pc = "consuming"
    /\ pc' = "raised"
    /\ raised' = Wrap(op, "EngineError")
    /\ UNCHANGED <<op, services, show_status, term, keys, progress_bars, errors, event,
                   delivered, out, calls, system_config, set_up, runs>>

\* the status shown whatever show_status says
StreamEndStatusAlways ==
    /\ pc = "consuming"
    /\ pc' = "done"
    /\ progress_bars' = CloseBars(progress_bars)
    /\ \E is_set_up \in BOOLEAN, result \in StatusResults :
            LET st == StatusProject(system_config, is_set_up, result, <<>>)
            IN  /\ out' = out \o CloseOutput(keys) \o DisplayErrors(errors) \o st.out
                /\ calls' = IF st.queried THEN Append(calls, "status_for") ELSE calls
                /\ set_up' = <<is_set_up>>
    /\ UNCHANGED <<op, services, show_status, term, keys, errors, event, delivered, raised,
                   system_config, runs>>

\* the stream ends: everything after the loop (lines 107-114, 140-147)
StreamEnd ==
    /\ pc = "consuming"
    /\ pc' = "done"
    /\ progress_bars' = CloseBars(progress_bars)
    /\ IF show_status
       THEN \E is_set_up \in BOOLEAN, result \in StatusResults :
                LET st == StatusProject(system_config, is_set_up, result, <<>>)
                IN  /\ out' = out \o CloseOutput(keys) \o DisplayErrors(errors) \o st.out
                    /\ calls' = IF st.queried THEN Append(calls, "status_for") ELSE calls
                    /\ set_up' = <<is_set_up>>
       ELSE /\ out' = out \o CloseOutput(keys) \o DisplayErrors(errors)
            /\ UNCHANGED <<calls, set_up>>
    /\ UNCHANGED <<op, services, show_status, term, keys, errors, event, delivered, raised,
                   system_config, runs>>

\* what limit_services can be: None, or a list of names
Limits == {<<>>, <<<<db>>>>}

\* status_project(ctx, limit_services) called on its own (lines 150-188)
status_project ==
    /\ pc = "idle"
    /\ pc' = "done"
    /\ op' = "status"
    /\ \E config \in {"none", "noproject", "project"}, is_set_up \in BOOLEAN,
          result \in StatusResults, limit_services \in Limits :
        LET st == StatusProject(config, is_set_up, result, limit_services)
        IN  /\ system_config' = config
            /\ set_up' = IF config = "project" THEN <<is_set_up>> ELSE <<>>
            /\ out' = st.out
            /\ calls' = IF st.queried THEN Append(calls, "status_for") ELSE calls
    /\ UNCHANGED <<services, show_status, term, keys, progress_bars, errors, event,
                   delivered, raised, runs>>

\* the two operations as functions of a run, for the runs held side by side

\* the run after the call, up to the first await (lines 89-102, 122-135)
Called(o, arg, show, t) ==
    LET svc == IF arg = <<>> THEN ProjectServices ELSE arg[1]
        run == [NotCalled EXCEPT !.op = o, !.show_status = show, !.services = svc,
                                 !.out = <<Echo(<<Header(o)>>), Echo(<<>>)>>]
    IN  IF svc = <<>>
        THEN [run EXCEPT !.pc = "raised",
                         !.raised = <<[type |-> "ValueError", message |-> "",
                                       cause |-> ""]>>]
        ELSE [run EXCEPT !.pc = "consuming",
                         !.keys = BuildKeys(svc),
                         !.progress_bars = BuildBars(svc, t),
                         !.calls = <<EngineCall(o)>>]

\* the run after one iteration of the async for (lines 101-105, 134-138)
Handled(run, e, t) ==
    IF run.pc # "consuming" THEN run
    ELSE LET r == HandleProgressBar(e.service_name, e.status, e.finished,
                                    run.progress_bars, run.errors, t)
         IN  [run EXCEPT !.delivered = @ + 1,
                         !.progress_bars = r.bars,
                         !.errors = r.errors,
                         !.pc = IF r.exc = <<>> THEN @ ELSE "raised",
                         !.raised = IF r.exc = <<>> THEN @ ELSE Wrap(run.op, r.exc[1])]

\* the run after the stream raised (lines 104-105, 137-138)
Aborted(run) ==
    IF run.pc # "consuming" THEN run
    ELSE [run EXCEPT !.pc = "raised", !.raised = Wrap(run.op, "EngineError")]

\* a stop that never reports the status
CompletedStopSilent(run, is_set_up, result) ==
    IF run.pc # "consuming" THEN run
    ELSE LET st == StatusProject("project", is_set_up, result, <<>>)
             closed == [run EXCEPT !.pc = "done",
                                   !.progress_bars = CloseBars(@),
                                   !.out = @ \o CloseOutput(run.keys)
                                             \o DisplayErrors(run.errors)]
         IN  IF run.show_status /\ run.op = "start"
             THEN [closed EXCEPT !.out = @ \o st.out,
                                 !.calls = IF st.queried THEN Append(@, "status_for") ELSE @,
                                 !.set_up = <<is_set_up>>]
             ELSE closed

\* the run after the stream ended (lines 107-114, 140-147)
Completed(run, is_set_up, result) ==
    IF run.pc # "consuming" THEN run
    ELSE LET st == StatusProject("project", is_set_up, result, <<>>)
             closed == [run EXCEPT !.pc = "done",
                                   !.progress_bars = CloseBars(@),
                                   !.out = @ \o CloseOutput(run.keys)
                                             \o DisplayErrors(run.errors)]
         IN  IF run.show_status
             THEN [closed EXCEPT !.out = @ \o st.out,
                                 !.calls = IF st.queried THEN Append(@, "status_for") ELSE @,
                                 !.set_up = <<is_set_up>>]
             ELSE closed

Consuming == runs.start.pc = "consuming" \/ runs.stop.pc = "consuming"

\* both operations are called with the same arguments
BothCalled ==
    /\ runs.start.pc = "idle"
    /\ runs.stop.pc = "idle"
    /\ \E arg \in {<<>>} \cup {<<l>> : l \in ServiceLists}, show \in BOOLEAN :
        runs' = [start |-> Called("start", arg, show, term),
                 stop |-> Called("stop", arg, show, term)]
    /\ UNCHANGED <<pc, op, services, show_status, term, keys, progress_bars, errors, event,
                   delivered, out, calls, raised, system_config, set_up>>

\* both streams yield the same tuple
BothNextEvent ==
    /\ Consuming
    /\ runs.start.delivered < MaxEvents
    /\ runs.stop.delivered < MaxEvents
    /\ \E e \in Events :
        runs' = [start |-> Handled(runs.start, e, term),
                 stop |-> Handled(runs.stop, e, term)]
    /\ UNCHANGED <<pc, op, services, show_status, term, keys, progress_bars, errors, event,
                   delivered, out, calls, raised, system_config, set_up>>

\* both streams raise at the same point
BothStreamRaise ==
    /\ Consuming
    /\ runs' = [start |-> Aborted(runs.start), stop |-> Aborted(runs.stop)]
    /\ UNCHANGED <<pc, op, services, show_status, term, keys, progress_bars, errors, event,
                   delivered, out, calls, raised, system_config, set_up>>

\* both streams end at the same point, over the same project state
BothStreamEnd ==
    /\ Consuming
    /\ \E is_set_up \in BOOLEAN, result \in StatusResults :
        runs' = [start |-> Completed(runs.start, is_set_up, result),
                 stop |-> Completed(runs.stop, is_set_up, result)]
    /\ UNCHANGED <<pc, op, services, show_status, term, keys, progress_bars, errors, event,
                   delivered, out, calls, raised, system_config, set_up>>

Next ==
    start_project \/ stop_project \/ NextEvent \/ StreamRaise \/ StreamEnd
    \/ status_project

Spec == Init /\ [][Next]_vars

NextPair == BothCalled \/ BothNextEvent \/ BothStreamRaise \/ BothStreamEnd

SpecPair == Init /\ [][NextPair]_vars

\* ================================================================ claims
\* what the formulas below read from a state or a step
Ev == event[1]
EvNext == event'[1]
Took == delivered' = delivered + 1
IsFailure(e) == e.finished /\ e.status.kind = "Failure"
IsSuccess(e) == e.finished /\ e.status = NoStatus
IsStep(e) == ~e.finished
Unique(q) == \A i, j \in DOMAIN q : q[i] = q[j] => i = j
NameSet(q) == {q[i] : i \in DOMAIN q}

CloseIdx == {i \in DOMAIN out : out[i].op = "close"}
Closes == SelectSeq(out, LAMBDA x : x.op = "close")
SummaryHeader == Echo(<<"There were errors while starting some of the services: ">>)
SummaryIdx == {i \in DOMAIN out : out[i] = SummaryHeader}
ClosedInReverse ==
    /\ Len(Closes) = Len(keys)
    /\ \A i \in DOMAIN keys : Closes[i].arg = keys[Len(keys) + 1 - i]
    /\ \A s \in DOMAIN progress_bars : progress_bars[s].closed
SummaryAfterCloses ==
    /\ errors # <<>> => Cardinality(SummaryIdx) = 1
    /\ errors = <<>> => SummaryIdx = {}
    /\ \A j \in SummaryIdx : \A i \in CloseIdx : i < j

\* C1: a finished event with a Failure payload for a registered service does not
\* raise and does not end the loop: exactly one record {service, error} is appended
\* for it, and an event taken after it is applied to the board as usual.
C1_FailureDoesNotStopBatch ==
    [][/\ (Took /\ IsFailure(EvNext) /\ Registered(progress_bars, EvNext.service_name))
            => /\ pc' = "consuming"
               /\ raised' = <<>>
               /\ errors' = Append(errors, [service |-> EvNext.service_name,
                                            error |-> EvNext.status])
       /\ (/\ delivered > 0
           /\ pc = "consuming"
           /\ IsFailure(Ev)
           /\ Took
           /\ IsStep(EvNext)
           /\ Registered(progress_bars, EvNext.service_name))
            => /\ pc' = "consuming"
               /\ progress_bars'[EvNext.service_name].n = EvNext.status.current_step
               /\ progress_bars'[EvNext.service_name].postfix
                    = Bound(EvNext.status.text, text_width_right(term))
               /\ progress_bars'[EvNext.service_name].line
                    = Render(progress_bars'[EvNext.service_name])
      ]_vars

\* C1 witness: a failure was recorded and the event after it moved a bar
C1_Witness ==
    /\ pc = "consuming"
    /\ delivered = 2
    /\ Len(errors) = 1
    /\ IsStep(Ev)
    /\ Ev.status.current_step > 0
    /\ progress_bars[Ev.service_name].n = Ev.status.current_step

C3_StreamFailureAborts ==
    [][/\ (pc = "consuming" /\ pc' = "raised" /\ ~Took)
            => /\ raised' = <<[type |-> "RiptideCliError", message |-> ErrorMessage(op),
                               cause |-> "EngineError"]>>
               /\ progress_bars' = progress_bars
               /\ keys' = keys
               /\ DOMAIN progress_bars' = NameSet(services)
               /\ \A s \in DOMAIN progress_bars' :
                    /\ ~progress_bars'[s].closed
                    /\ (delivered = 0 \/ (delivered = 1 /\ s # Ev.service_name))
                        => progress_bars'[s] = BuildBars(services, term)[s]
       /\ pc = "raised" => (delivered' = delivered /\ progress_bars' = progress_bars
                            /\ out' = out)
      ]_vars

\* C3 witness: the stream raised after one of two bars was updated
C3_Witness ==
    /\ pc = "raised"
    /\ raised[1].cause = "EngineError"
    /\ delivered = 1
    /\ Len(keys) = 2
    /\ IsStep(Ev)
    /\ Registered(progress_bars, Ev.service_name)
    /\ progress_bars[Ev.service_name] # BuildBars(services, term)[Ev.service_name]
    /\ \A s \in DOMAIN progress_bars :
        s # Ev.service_name => progress_bars[s] = BuildBars(services, term)[s]

\* C4: for a non-empty sequence of unique names the bars are in the input order
\* with position = index, and when the stream completes each bar is closed exactly
\* once, in reverse insertion order, each close followed by one blank line.
C4_OrderAndReverseClose ==
    (pc \in {"consuming", "done"} /\ Unique(services)) =>
        /\ keys = services
        /\ \A i \in DOMAIN services : progress_bars[services[i]].position = i - 1
        /\ pc = "done" =>
            /\ Cardinality(CloseIdx) = Len(services)
            /\ \A i \in DOMAIN services :
                /\ out[2 * i + 1] = Close(services[Len(services) + 1 - i])
                /\ out[2 * i + 2] = Echo(<<>>)

\* C4 witness: a completed run over two different names
C4_Witness == pc = "done" /\ Len(services) = 2 /\ Unique(services)

\* C5 (as stated): building over an empty sequence fails with a ConfigurationError,
\* creates no bar, and nothing has been written when it is raised.
C5_EmptyIsConfigurationError ==
    (op \in {"start", "stop"} /\ services = <<>>) =>
        /\ pc = "raised"
        /\ raised[1].type = "ConfigurationError"
        /\ keys = <<>>
        /\ DOMAIN progress_bars = {}
        /\ out = <<>>

\* C6 (as stated): after a finished event was applied for a service, a further
\* event for that service is ignored: the bar and the error list are unchanged
\* and the loop goes on.
C6_TerminalEventsIgnored ==
    [][(/\ pc = "consuming"
        /\ delivered > 0
        /\ Ev.finished
        /\ Took
        /\ EvNext.service_name = Ev.service_name)
            => /\ progress_bars' = progress_bars
               /\ errors' = errors
               /\ pc' = "consuming"
      ]_vars

\* C7 (as stated): the counter n of a bar never goes down.
C7_NeverRegresses ==
    [][\A s \in DOMAIN progress_bars : progress_bars'[s].n >= progress_bars[s].n]_vars

\* C7 (amended): a finished event leaves n unchanged and a non-finished event sets
\* n to the payload's current_step, so n goes down only when the payload's
\* current_step is below the bar's n.
C7_RegressesOnlyWithPayload ==
    [][\A s \in DOMAIN progress_bars :
        \/ progress_bars'[s].n >= progress_bars[s].n
        \/ /\ Took
           /\ IsStep(EvNext)
           /\ EvNext.service_name = s
           /\ EvNext.status.current_step < progress_bars[s].n
           /\ progress_bars'[s].n = EvNext.status.current_step
      ]_vars

\* C7 witness: a second event has brought a bar to the last step
C7_Witness ==
    /\ pc = "consuming"
    /\ delivered = 2
    /\ IsStep(Ev)
    /\ Registered(progress_bars, Ev.service_name)
    /\ progress_bars[Ev.service_name].n = MaxStep

\* C8: a non-finished event for a registered service sets the bar's n to the
\* payload's current_step, its total to steps when steps is given and leaves it
\* when steps is absent, and its footer to the text bounded to the right budget;
\* a step "k of k" followed by the finished event without payload leaves total k,
\* n k, no error record, and the loop running.
C8_StepSetsCounterTotalFooter ==
    [][/\ (Took /\ IsStep(EvNext) /\ Registered(progress_bars, EvNext.service_name))
            => LET s == EvNext.service_name
                   p == EvNext.status
               IN  /\ pc' = "consuming"
                   /\ progress_bars'[s].n = p.current_step
                   /\ progress_bars'[s].n - progress_bars[s].n
                        = p.current_step - progress_bars[s].n
                   /\ progress_bars'[s].total
                        = IF p.steps # <<>> THEN p.steps[1] ELSE progress_bars[s].total
                   /\ progress_bars'[s].postfix = Bound(p.text, text_width_right(term))
                   /\ errors' = errors
       /\ (/\ pc = "consuming"
           /\ delivered > 0
           /\ IsStep(Ev)
           /\ Registered(progress_bars, Ev.service_name)
           /\ Ev.status.steps = <<Ev.status.current_step>>
           /\ errors = <<>>
           /\ Took
           /\ IsSuccess(EvNext)
           /\ EvNext.service_name = Ev.service_name)
            => /\ pc' = "consuming"
               /\ progress_bars'[Ev.service_name].total = Ev.status.current_step
               /\ progress_bars'[Ev.service_name].n = Ev.status.current_step
               /\ progress_bars'[Ev.service_name].bar_format = DefaultFormat
               /\ errors' = <<>>
      ]_vars

\* C8 witness: a bar taken to "MaxStep of MaxStep" and then finished without payload
C8_Witness ==
    /\ pc = "consuming"
    /\ delivered = 2
    /\ IsSuccess(Ev)
    /\ Registered(progress_bars, Ev.service_name)
    /\ progress_bars[Ev.service_name].n = MaxStep
    /\ progress_bars[Ev.service_name].total = MaxStep
    /\ errors = <<>>

\* the bounded text as the specification words it, of length width
BoundedTo(text, width) ==
    IF Len(text) > width - 3
    THEN SubSeq(text, 1, width - 3) \o Ellipsis
    ELSE text \o Spaces(width - Len(text))

\* C9 (as stated): for every text and every width the terminal can give, the footer
\* of an in-progress event and the message of a failure line have length exactly
\* the width: the first width-3 characters and '...' when the text is longer than
\* width-3, the text padded with spaces otherwise.
C9_BoundedTextHasExactWidth ==
    (pc = "consuming" /\ delivered > 0 /\ Registered(progress_bars, Ev.service_name)) =>
        /\ IsStep(Ev) =>
            /\ Len(progress_bars[Ev.service_name].postfix) = text_width_right(term)
            /\ progress_bars[Ev.service_name].postfix
                = BoundedTo(Ev.status.text, text_width_right(term))
        /\ IsFailure(Ev) =>
            /\ Len(progress_bars[Ev.service_name].bar_format.tail) = text_width_error(term)
            /\ progress_bars[Ev.service_name].bar_format.tail
                = BoundedTo(Ev.status.message, text_width_error(term))

\* C10: the error list only grows at its end and in arrival order: a finished event
\* with a Failure payload appends its (service, failure) pair, and no other step
\* adds, removes or reorders a record.
C10_ErrorsAppendOnly ==
    [][IF Took /\ IsFailure(EvNext)
       THEN errors' = Append(errors, [service |-> EvNext.service_name,
                                      error |-> EvNext.status])
       ELSE errors' = errors
      ]_vars

\* C10 witness: two records, of different services, in the list
C10_Witness ==
    /\ pc = "consuming"
    /\ Len(errors) = 2
    /\ errors[1].service # errors[2].service
    /\ errors[2].service = Ev.service_name
    /\ errors[2].error = Ev.status

StatusIdx == {i \in DOMAIN out : out[i] = Echo(<<"Status:">>)}
FirstIndex(q, x) == CHOOSE i \in DOMAIN q : q[i] = x /\ \A j \in DOMAIN q : q[j] = x => i <= j
Placeholder == Ellipsis \o Spaces(text_width_right(term) - 3)

\* C11: the keys of the board are the requested names, each once and in the order
\* of their first mention; they are there before the first event is taken and no
\* event adds, removes or moves a bar; every bar starts with n = 0 and the
\* placeholder footer.
C11_KeySetBuiltOnceAndFixed ==
    /\ Unique(keys)
    /\ NameSet(keys) = NameSet(services)
    /\ DOMAIN progress_bars = NameSet(keys)
    /\ \A i, j \in DOMAIN keys :
        i < j => FirstIndex(services, keys[i]) < FirstIndex(services, keys[j])
    /\ \A s \in DOMAIN progress_bars :
        \E i \in DOMAIN services :
            services[i] = s /\ progress_bars[s].position = i - 1
    /\ delivered > 0 => keys # <<>>
    /\ (pc = "consuming" /\ delivered = 0) =>
        \A s \in DOMAIN progress_bars :
            /\ progress_bars[s].n = 0
            /\ progress_bars[s].postfix = Placeholder
            /\ progress_bars[s].bar_format = DefaultFormat

\* C11 witness: two events were handled on a board built from a list that names
\* one service twice
C11_Witness ==
    /\ pc = "consuming"
    /\ delivered = 2
    /\ Len(services) = 2
    /\ Len(keys) = 1
    /\ progress_bars[keys[1]].n > 0

\* C12: a finished event without payload changes nothing: no bar, no line, no
\* error record, no output, and the loop goes on.
C12_SuccessChangesNothing ==
    [][(Took /\ IsSuccess(EvNext))
            => /\ progress_bars' = progress_bars
               /\ errors' = errors
               /\ out' = out
               /\ keys' = keys
               /\ pc' = "consuming"
               /\ raised' = <<>>
      ]_vars

\* C12 witness: a bar stopped at step 1 with the footer of its last step when the
\* finished event without payload came
C12_Witness ==
    /\ pc = "consuming"
    /\ delivered = 2
    /\ IsSuccess(Ev)
    /\ Registered(progress_bars, Ev.service_name)
    /\ progress_bars[Ev.service_name].n = 1
    /\ progress_bars[Ev.service_name].postfix # Placeholder
    /\ progress_bars[Ev.service_name].line = Render(progress_bars[Ev.service_name])
    /\ errors = <<>>

\* C13: when the stream completes, all events were applied first (nothing is
\* closed or printed while events are taken), then the bars are closed, then the
\* error summary is printed, then the status is reported; the status is reported
\* exactly when show_status is true, and after the last close.
C13_PhasesInOrder ==
    /\ pc = "consuming" => (CloseIdx = {} /\ SummaryIdx = {} /\ StatusIdx = {})
    /\ pc = "raised" => StatusIdx = {}
    /\ (pc = "done" /\ op \in {"start", "stop"}) =>
        /\ Cardinality(CloseIdx) = Len(keys)
        /\ Cardinality(StatusIdx) = IF show_status THEN 1 ELSE 0
        /\ show_status <=> set_up # <<>>
        /\ calls \in {<<EngineCall(op)>>, <<EngineCall(op), "status_for">>}
        /\ Len(calls) = 2 => show_status
        /\ \A i \in CloseIdx : \A j \in SummaryIdx : i < j
        /\ \A j \in StatusIdx :
            /\ \A i \in CloseIdx : i < j
            /\ \A i \in SummaryIdx : i + 3 * Len(errors) < j

\* C13 witness: a completed run with two bars, a recorded failure and the status
\* queried from the engine
C13_Witness ==
    /\ pc = "done"
    /\ show_status
    /\ Len(keys) = 2
    /\ Len(errors) = 1
    /\ Len(calls) = 2

StatusTail == LET j == CHOOSE i \in StatusIdx : TRUE IN SubSeq(out, j + 1, Len(out))

\* C14: when there is no system configuration, no project, or the project is not
\* set up, status_project prints that and nothing else, and status_for is not
\* called.
C14_StatusStopsWithoutProject ==
    (StatusIdx # {} /\ (system_config # "project" \/ set_up = <<FALSE>>)) =>
        /\ \A i \in DOMAIN calls : calls[i] # "status_for"
        /\ system_config = "none" =>
            StatusTail = <<Echo(TAB \o <<"No system configuration found.">>),
                           Echo(TAB \o <<"No project found.">>)>>
        /\ system_config = "noproject" =>
            StatusTail = <<Echo(TAB \o <<"No project found.">>)>>
        /\ system_config = "project" =>
            StatusTail = <<Echo(TAB \o <<"Project is not yet set up. Run the setup command.">>)>>

\* C14 witness: status_project was called with a project that is not set up
C14_Witness ==
    /\ op = "status"
    /\ system_config = "project"
    /\ set_up = <<FALSE>>
    /\ Len(out) = 2

\* the lines between the last close and the status report (or the end)
SummaryLines ==
    LET first == 2 + 2 * Len(keys) + 1
        last == IF StatusIdx = {} THEN Len(out) ELSE (CHOOSE i \in StatusIdx : TRUE) - 1
    IN  SubSeq(out, first, last)

\* C15: the error summary is empty when there is no record; otherwise it is one
\* header line and then, for each record in arrival order, the service name, the
\* message and a blank line: 1 + 3n lines for n records.
C15_SummaryLayout ==
    (pc = "done" /\ op \in {"start", "stop"}) =>
        /\ errors = <<>> => SummaryLines = <<>>
        /\ errors # <<>> =>
            /\ Len(SummaryLines) = 1 + 3 * Len(errors)
            /\ SummaryLines[1] = SummaryHeader
            /\ \A i \in DOMAIN errors :
                /\ SummaryLines[3 * i - 1] = Echo(TAB \o errors[i].service \o <<":">>)
                /\ SummaryLines[3 * i] = Echo(TAB \o errors[i].error.message)
                /\ SummaryLines[3 * i + 1] = Echo(<<>>)

\* C15 witness: a completed run that printed two records of different services
C15_Witness ==
    /\ pc = "done"
    /\ Len(errors) = 2
    /\ errors[1].service # errors[2].service
    /\ Len(SummaryLines) = 7

\* C16: a finished event with a Failure payload for a registered service replaces
\* the bar's line by its description followed by the message bounded to the error
\* budget, redrawn at once, and leaves n, total and footer as they were; as the
\* first event of a run it leaves exactly one record, for its service.
C16_FailureLine ==
    [][(Took /\ IsFailure(EvNext) /\ Registered(progress_bars, EvNext.service_name))
            => LET s == EvNext.service_name
                   msg == Bound(EvNext.status.message, text_width_error(term))
               IN  /\ progress_bars'[s].line = progress_bars[s].desc \o msg
                   /\ progress_bars'[s].bar_format = MessageFormat(msg)
                   /\ progress_bars'[s].n = progress_bars[s].n
                   /\ progress_bars'[s].total = progress_bars[s].total
                   /\ progress_bars'[s].postfix = progress_bars[s].postfix
                   /\ progress_bars'[s].desc = progress_bars[s].desc
                   /\ delivered = 0
                        => errors' = <<[service |-> s, error |-> EvNext.status]>>
      ]_vars

\* C16 witness: the single event (db, Failure, finished) on a terminal whose two
\* budgets differ
C16_Witness ==
    /\ pc = "consuming"
    /\ delivered = 1
    /\ IsFailure(Ev)
    /\ Ev.service_name = db
    /\ Registered(progress_bars, db)
    /\ text_width_error(term) # text_width_right(term)
    /\ Len(errors) = 1
    /\ errors[1].service = db
    /\ progress_bars[db].line = progress_bars[db].desc \o progress_bars[db].bar_format.tail

\* C17: whenever the coroutine is suspended, every bar's line is the drawing of
\* its present fields, and the board shows the event taken last: the change and
\* the redraw of an event are complete before the next one is taken.
C17_RedrawnBeforeNextEvent ==
    /\ \A s \in DOMAIN progress_bars : progress_bars[s].line = Render(progress_bars[s])
    /\ (pc = "consuming" /\ delivered > 0 /\ Registered(progress_bars, Ev.service_name)) =>
        /\ IsStep(Ev) =>
            /\ progress_bars[Ev.service_name].n = Ev.status.current_step
            /\ progress_bars[Ev.service_name].postfix
                = Bound(Ev.status.text, text_width_right(term))
        /\ IsFailure(Ev) =>
            /\ progress_bars[Ev.service_name].bar_format.custom
            /\ errors[Len(errors)] = [service |-> Ev.service_name, error |-> Ev.status]

\* C17 witness: a step for one service and then a failure of the other, both drawn
C17_Witness ==
    /\ pc = "consuming"
    /\ delivered = 2
    /\ IsFailure(Ev)
    /\ Len(keys) = 2
    /\ \E s \in DOMAIN progress_bars :
        /\ s # Ev.service_name
        /\ progress_bars[s].n > 0
        /\ progress_bars[s].line = Render(progress_bars[s])
    /\ progress_bars[Ev.service_name].bar_format.custom

\* C18: an event for a service changes no other bar, no key and no output, and the
\* error list only when it is a failure.
C18_OtherBarsUntouched ==
    [][Took =>
        /\ \A s \in DOMAIN progress_bars :
            s # EvNext.service_name => progress_bars'[s] = progress_bars[s]
        /\ DOMAIN progress_bars' = DOMAIN progress_bars
        /\ keys' = keys
        /\ out' = out
        /\ ~IsFailure(EvNext) => errors' = errors
      ]_vars

\* C18 witness: events of the two services interleaved, each bar at its own step
C18_Witness ==
    /\ pc = "consuming"
    /\ delivered = 2
    /\ Len(keys) = 2
    /\ progress_bars[db].n = 1
    /\ progress_bars[web].n = 2
    /\ progress_bars[db].postfix # progress_bars[web].postfix

\* C19 (as stated): an event that names a service without a bar ends the
\* operation with a RiptideCliError wrapping the lookup failure; no bar is changed
\* or closed and nothing is printed.
C19_UnknownServiceAborts ==
    [][(pc = "consuming" /\ Took /\ ~Registered(progress_bars, EvNext.service_name))
            => /\ pc' = "raised"
               /\ raised' = <<[type |-> "RiptideCliError", message |-> ErrorMessage(op),
                               cause |-> "KeyError"]>>
               /\ progress_bars' = progress_bars
               /\ out' = out
      ]_vars

\* C19 (amended): a non-finished event, or a finished event with a Failure payload,
\* that names a service without a bar ends the operation with a RiptideCliError
\* wrapping the lookup failure; no bar is changed or closed and nothing is printed.
\* A finished event without payload that names such a service is passed over: no
\* bar is looked up and the loop goes on.
C19_UnknownServiceAbortsUnlessSuccess ==
    [][(pc = "consuming" /\ Took /\ ~Registered(progress_bars, EvNext.service_name))
            => /\ progress_bars' = progress_bars
               /\ out' = out
               /\ Len(out') = 2
               /\ \A s \in DOMAIN progress_bars' : ~progress_bars'[s].closed
               /\ IF IsSuccess(EvNext)
                  THEN pc' = "consuming" /\ raised' = <<>> /\ errors' = errors
                  ELSE /\ pc' = "raised"
                       /\ raised' = <<[type |-> "RiptideCliError",
                                       message |-> ErrorMessage(op),
                                       cause |-> "KeyError"]>>
      ]_vars

\* C19 witness: the second event was a step for a name without a bar, after the
\* one bar had been moved
C19_Witness ==
    /\ pc = "raised"
    /\ raised[1].cause = "KeyError"
    /\ delivered = 2
    /\ IsStep(Ev)
    /\ \E s \in DOMAIN progress_bars : progress_bars[s].n > 0

====
